---- MODULE Spec2Model ----
(***************************************************************************)
(* FusionAuth JWT verification and request gating of Backend_API_Server:   *)
(* validate_fusionauth_jwt (auth_utils.py), FusionAuthJWTMiddleware and    *)
(* jwt_required (jwt_middleware.py), and the login / validate-token /      *)
(* logout views (views.py).                                                *)
(*                                                                         *)
(* Strings of the program are sequences of atoms.  A compact JWT is the    *)
(* sequence of its six decisive parts <<signer, iat, nbf, exp, aud, iss>>; *)
(* an Authorization header is a sequence such as <<"Bearer", " ">> \o jwt. *)
(* Python's None is the atom None; a missing header or body field is the   *)
(* empty sequence (request.META.get(..., "") and the falsy None / "").     *)
(***************************************************************************)
EXTENDS Naturals, Sequences, FiniteSets, TLC

VARIABLES
    environ,    \* os.environ: the three FUSIONAUTH_* variables
    settings,   \* django settings: FUSIONAUTH_* as read once at start-up
    request,    \* the request in flight (<<>> when none), before its handler ran
    last,       \* what the last handled request or call produced
    envChanges  \* number of changes made to os.environ since start-up

vars == <<environ, settings, request, last, envChanges>>

\* ------------------------------------------------------------------ bounds

\* How many times os.environ is changed after start-up (SpecEnv only).
MaxEnvChanges == 1

\* ------------------------------------------------------------ value domains

None == "None"

\* Values an environment variable may hold: unset, empty, or a value.
IssuerValues == {None, "", "iss1"}
ClientIdValues == {None, "", "app1"}
\* "pemA" is the PEM of the trusted key, "junk" a non-empty text that is no PEM.
PublicKeyValues == {None, "", "pemA", "junk"}

Environs == [FUSIONAUTH_ISSUER : IssuerValues,
             FUSIONAUTH_CLIENT_ID : ClientIdValues,
             FUSIONAUTH_JWT_PUBLIC_KEY : PublicKeyValues]

\* Which private key signed a token: the one matching "pemA", or another one.
Signers == {"pemA", "pemB"}
\* Time claims relative to the moment of verification.
IatValues == {"past", "nan"}
NbfValues == {"absent", "future"}
ExpValues == {"absent", "nan", "past", "now", "future"}
AudValues == {"absent", "app1", "app2", "[app2,app1]"}
IssValues == {"absent", "iss1", "iss2"}

\* The compact serialisation of a well-formed RS256 JWT.
Tokens == {<<s, i, n, e, a, o>> : s \in Signers, i \in IatValues, n \in NbfValues,
                                  e \in ExpValues, a \in AudValues, o \in IssValues}

\* Texts that are no JWT: too few segments.
Garbage == {<<"x">>, <<"x", "y">>}

\* ------------------------------------------------- python-jose, as called

\* "is None" in place of "not v": an empty value counts as configured.
is_None(v) == v = None
\* Python's "not v" on an environment value.
Falsy(v) == v = None \/ v = ""

WellFormed(token) == token \in Tokens

\* The decoded payload of a well-formed token.
Payload(token) ==
    [iat |-> token[2], nbf |-> token[3], exp |-> token[4],
     aud |-> token[5], iss |-> token[6]]

\* jose wraps a string aud into a list; a list aud is taken as it is.
AudienceClaims(aud) ==
    IF aud = "[app2,app1]" THEN {"app2", "app1"} ELSE {aud}

\* Whether the key text can be loaded as a PEM public key (jwk.construct).
LoadsAsKey(public_key) == public_key \in Signers

Ok(claims) == [kind |-> "ok", claims |-> claims]
JWTError(msg) == [kind |-> "JWTError", msg |-> msg]
ExpiredSignatureError == [kind |-> "ExpiredSignatureError", msg |-> "Signature has expired."]
\* An exception that is neither JWTError nor PermissionDenied.
Fault(exc) == [kind |-> "fault", exc |-> exc]
PermissionDenied(msg) == [kind |-> "PermissionDenied", msg |-> msg]

\* verify_aud: an aud claim that is present must hold the audience; a token
\* without an aud claim passes.  TRUE when the check raises.
aud_skipped(claims, audience) == FALSE
aud_invalid(claims, audience) ==
    claims.aud # "absent" /\ audience \notin AudienceClaims(claims.aud)

\* verify_iss: the iss claim (None when absent) must be the issuer.
iss_invalid(claims, issuer) == claims.iss # issuer

\* jwt.decode(token, public_key, algorithms=[RS256], audience=client_id,
\* issuer=issuer, options={verify_signature, verify_aud, verify_iat,
\* verify_exp, verify_iss}); verify_nbf is on by default.  jws.verify runs
\* first (segments, then the key is loaded, then the signature), then the
\* claims are checked in the order iat, nbf, exp, aud, iss.  exp = now is not
\* yet expired (exp < now raises).
jwt_decode(token, public_key, audience, issuer) ==
    IF ~WellFormed(token) THEN JWTError("Not enough segments")
    ELSE IF ~LoadsAsKey(public_key) THEN Fault("JWKError")
    ELSE IF token[1] # public_key THEN JWTError("Signature verification failed.")
    ELSE LET claims == Payload(token) IN
      IF claims.iat = "nan"
        THEN JWTError("Issued At claim (iat) must be an integer.")
      ELSE IF claims.nbf = "future"
        THEN JWTError("The token is not yet valid (nbf)")
      ELSE IF claims.exp = "nan"
        THEN JWTError("Expiration Time claim (exp) must be an integer.")
      ELSE IF claims.exp = "past" THEN ExpiredSignatureError
      ELSE IF aud_invalid(claims, audience) THEN JWTError("Invalid audience")
      ELSE IF iss_invalid(claims, issuer) THEN JWTError("Invalid issuer")
      ELSE Ok(claims)

\* ------------------------------------------------------------ auth_utils.py

\* The except clauses in the wrong order: ExpiredSignatureError is a JWTError.
validate_fusionauth_jwt_except_swapped(token, env) ==
    LET issuer == env.FUSIONAUTH_ISSUER
        client_id == env.FUSIONAUTH_CLIENT_ID
        public_key == env.FUSIONAUTH_JWT_PUBLIC_KEY
    IN  IF Falsy(issuer) \/ Falsy(client_id) \/ Falsy(public_key)
          THEN PermissionDenied("FusionAuth configuration missing.")
        ELSE LET r == jwt_decode(token, public_key, client_id, issuer) IN
          CASE r.kind = "ok" -> r
            [] r.kind \in {"JWTError", "ExpiredSignatureError"} ->
                 PermissionDenied("Invalid token: " \o r.msg)
            [] OTHER -> r

\* Reads os.environ at every call; an exception that is neither
\* ExpiredSignatureError nor JWTError leaves the function as it is.
validate_fusionauth_jwt(token, env) ==
    LET issuer == env.FUSIONAUTH_ISSUER
        client_id == env.FUSIONAUTH_CLIENT_ID
        public_key == env.FUSIONAUTH_JWT_PUBLIC_KEY
    IN  IF Falsy(issuer) \/ Falsy(client_id) \/ Falsy(public_key)
          THEN PermissionDenied("FusionAuth configuration missing.")
        ELSE LET r == jwt_decode(token, public_key, client_id, issuer) IN
          CASE r.kind = "ok" -> r
            [] r.kind = "ExpiredSignatureError" -> PermissionDenied("Token has expired.")
            [] r.kind = "JWTError" -> PermissionDenied("Invalid token: " \o r.msg)
            [] OTHER -> r

\* --------------------------------------------------------- jwt_middleware.py

PROTECTED_PREFIX == <<"/", "api", "/", "protected", "/">>

\* The prefix given without its closing "/".
startswith_unclosed(s, prefix) ==
    Len(s) >= Len(prefix) - 1 /\ SubSeq(s, 1, Len(prefix) - 1) = SubSeq(prefix, 1, Len(prefix) - 1)
\* str.startswith
startswith(s, prefix) ==
    Len(s) >= Len(prefix) /\ SubSeq(s, 1, Len(prefix)) = prefix

JsonResponse(body, status) == [status |-> status, body |-> body]

\* The scheme matched as any word instead of the literal Bearer.
_extract_any_scheme(req) ==
    LET auth == req.header IN
    IF Len(auth) >= 3 /\ auth[1] # " " /\ auth[2] = " "
      THEN SubSeq(auth, 3, Len(auth))
      ELSE <<>>
\* re.match(r"^Bearer (.+)$", auth): group(1), or <<>> for Python's None.
_extract_bearer_token(req) ==
    LET auth == req.header IN
    IF Len(auth) >= 3 /\ auth[1] = "Bearer" /\ auth[2] = " "
      THEN SubSeq(auth, 3, Len(auth))
      ELSE <<>>

\* What a gate leaves behind: the response it returned (<<>> for None), the
\* jwt_claims attribute of the request (<<>> while unset), the calls it made,
\* a non-PermissionDenied exception that left it, and whether the view ran.
GateResult(response, jwt_claims, calls, raised, view) ==
    [response |-> response, jwt_claims |-> jwt_claims, calls |-> calls,
     raised |-> raised, view |-> view]

\* A rejected token answered like a missing one, with 401.
process_view_401(req, env) ==
    IF ~startswith(req.path, PROTECTED_PREFIX)
      THEN GateResult(<<>>, <<>>, <<>>, <<>>, TRUE)
      ELSE LET token == _extract_bearer_token(req) IN
        IF token = <<>>
          THEN GateResult(<<JsonResponse([error |-> "Missing or malformed Authorization token."], 401)>>,
                          <<>>, <<"_extract_bearer_token">>, <<>>, FALSE)
          ELSE LET r == validate_fusionauth_jwt(token, env)
                   calls == <<"_extract_bearer_token", "validate_fusionauth_jwt">>
               IN CASE r.kind = "ok" ->
                         GateResult(<<>>, <<r.claims>>, calls, <<>>, TRUE)
                    [] r.kind = "PermissionDenied" ->
                         GateResult(<<JsonResponse([error |-> r.msg], 401)>>,
                                    <<>>, calls, <<>>, FALSE)
                    [] OTHER ->
                         GateResult(<<>>, <<>>, calls, <<r.exc>>, FALSE)

\* FusionAuthJWTMiddleware.process_view: returning None (response <<>>, no
\* exception) lets Django call the view.
process_view(req, env) ==
    IF ~startswith(req.path, PROTECTED_PREFIX)
      THEN GateResult(<<>>, <<>>, <<>>, <<>>, TRUE)
      ELSE LET token == _extract_bearer_token(req) IN
        IF token = <<>>
          THEN GateResult(<<JsonResponse([error |-> "Missing or malformed Authorization token."], 401)>>,
                          <<>>, <<"_extract_bearer_token">>, <<>>, FALSE)
          ELSE LET r == validate_fusionauth_jwt(token, env)
                   calls == <<"_extract_bearer_token", "validate_fusionauth_jwt">>
               IN CASE r.kind = "ok" ->
                         GateResult(<<>>, <<r.claims>>, calls, <<>>, TRUE)
                    [] r.kind = "PermissionDenied" ->
                         GateResult(<<JsonResponse([error |-> r.msg], 403)>>,
                                    <<>>, calls, <<>>, FALSE)
                    [] OTHER ->
                         GateResult(<<>>, <<>>, calls, <<r.exc>>, FALSE)

\* The decorator without "request.jwt_claims = claims".
jwt_required_no_claims(req, env) ==
    LET token == _extract_bearer_token(req) IN
    IF token = <<>>
      THEN GateResult(<<JsonResponse([error |-> "Missing or malformed Authorization token."], 401)>>,
                      <<>>, <<"_extract_bearer_token">>, <<>>, FALSE)
      ELSE LET r == validate_fusionauth_jwt(token, env)
               calls == <<"_extract_bearer_token", "validate_fusionauth_jwt">>
           IN CASE r.kind = "ok" ->
                     GateResult(<<>>, <<>>, calls, <<>>, TRUE)
                [] r.kind = "PermissionDenied" ->
                     GateResult(<<JsonResponse([error |-> r.msg], 403)>>,
                                <<>>, calls, <<>>, FALSE)
                [] OTHER ->
                     GateResult(<<>>, <<>>, calls, <<r.exc>>, FALSE)

\* jwt_required(view_func)(request), that is _wrapped_view: on success it
\* calls view_func itself.
jwt_required(req, env) ==
    LET token == _extract_bearer_token(req) IN
    IF token = <<>>
      THEN GateResult(<<JsonResponse([error |-> "Missing or malformed Authorization token."], 401)>>,
                      <<>>, <<"_extract_bearer_token">>, <<>>, FALSE)
      ELSE LET r == validate_fusionauth_jwt(token, env)
               calls == <<"_extract_bearer_token", "validate_fusionauth_jwt">>
           IN CASE r.kind = "ok" ->
                     GateResult(<<>>, <<r.claims>>, calls, <<>>, TRUE)
                [] r.kind = "PermissionDenied" ->
                     GateResult(<<JsonResponse([error |-> r.msg], 403)>>,
                                <<>>, calls, <<>>, FALSE)
                [] OTHER ->
                     GateResult(<<>>, <<>>, calls, <<r.exc>>, FALSE)

\* ------------------------------------------------------------------ views.py

\* json.loads(request.body.decode()) and body.get("token"); any exception
\* (no JSON, or JSON that is no object) falls back to request.POST.get("token").
\* <<>> stands for a None or empty token.
body_token(req) ==
    IF req.body.json = "object" THEN req.body.json_token ELSE req.body.form_token

ViewResult(response, raised) == [response |-> response, raised |-> raised]

login_view(req, env) ==
    IF req.method # "POST"
      THEN ViewResult(<<JsonResponse([error |-> "Only POST is allowed."], 405)>>, <<>>)
    ELSE LET token == body_token(req) IN
      IF token = <<>>
        THEN ViewResult(<<JsonResponse([error |-> "Missing token."], 400)>>, <<>>)
      ELSE LET r == validate_fusionauth_jwt(token, env) IN
        CASE r.kind = "ok" ->
               ViewResult(<<JsonResponse([success |-> TRUE, claims |-> r.claims], 200)>>, <<>>)
          [] r.kind = "PermissionDenied" ->
               ViewResult(<<JsonResponse([error |-> r.msg], 403)>>, <<>>)
          [] OTHER -> ViewResult(<<>>, <<r.exc>>)

validate_token_view(req, env) ==
    IF req.method # "POST"
      THEN ViewResult(<<JsonResponse([error |-> "Only POST is allowed."], 405)>>, <<>>)
    ELSE LET token == body_token(req) IN
      IF token = <<>>
        THEN ViewResult(<<JsonResponse([error |-> "Missing token."], 400)>>, <<>>)
      ELSE LET r == validate_fusionauth_jwt(token, env) IN
        CASE r.kind = "ok" ->
               ViewResult(<<JsonResponse([valid |-> TRUE, claims |-> r.claims], 200)>>, <<>>)
          [] r.kind = "PermissionDenied" ->
               ViewResult(<<JsonResponse([valid |-> FALSE, error |-> r.msg], 403)>>, <<>>)
          [] OTHER -> ViewResult(<<>>, <<r.exc>>)

logout_view(req) ==
    IF req.method # "POST"
      THEN ViewResult(<<JsonResponse([error |-> "Only POST is allowed."], 405)>>, <<>>)
      ELSE ViewResult(<<JsonResponse([success |-> TRUE], 200)>>, <<>>)

\* -------------------------------------------------------------------- urls.py

LOGIN_PATH == <<"/", "api", "/", "auth", "/", "login", "/">>
VALIDATE_PATH == <<"/", "api", "/", "auth", "/", "validate-token", "/">>
LOGOUT_PATH == <<"/", "api", "/", "auth", "/", "logout", "/">>

\* ------------------------------------------------------------------ requests

\* Tokens sent through the gate: every signer, exp, aud and iss, with the
\* earlier checks (iat, nbf) passing, and the texts that are no JWT.
GateTokens ==
    {t \in Tokens : t[2] = "past" /\ t[3] = "absent" /\ t[5] # "[app2,app1]"}
        \cup Garbage

SampleToken == <<"pemA", "past", "absent", "future", "app1", "iss1">>

\* Authorization headers: well-formed bearer headers, and the ways of not
\* being one (absent, keyword alone, no token, wrong case, wrong scheme, no
\* space, leading space, bare token); a second space belongs to the token.
Headers ==
    {<<"Bearer", " ">> \o t : t \in GateTokens} \cup
    { <<>>, <<"Bearer">>, <<"Bearer", " ">>,
      <<"bearer", " ">> \o SampleToken,
      <<"Basic", " ">> \o SampleToken,
      <<"Bearer">> \o SampleToken,
      <<" ", "Bearer", " ">> \o SampleToken,
      <<"Bearer", " ", " ">> \o SampleToken,
      SampleToken }

Paths ==
    { <<"/", "api", "/", "protected", "/", "x">>,
      <<"/", "api", "/", "protected", "/">>,
      <<"/", "api", "/", "protected">>,
      <<"/", "API", "/", "protected", "/", "x">>,
      <<"/", "x", "/", "api", "/", "protected", "/">>,
      LOGIN_PATH }

NoBody == [json |-> "invalid", json_token |-> <<>>, form_token |-> <<>>]

\* Tokens posted to the views: valid, expired, foreign signer, wrong audience,
\* wrong issuer, no JWT.
ViewTokens ==
    { SampleToken,
      <<"pemA", "past", "absent", "past", "app1", "iss1">>,
      <<"pemB", "past", "absent", "future", "app1", "iss1">>,
      <<"pemA", "past", "absent", "future", "app2", "iss1">>,
      <<"pemA", "past", "absent", "future", "app1", "iss2">>,
      <<"x">> }

\* A request body: whether it parses as a JSON object, as other JSON, or not
\* at all; the object's "token" member; the form field "token".
Bodies ==
    {b \in [json : {"object", "array", "invalid"},
            json_token : ViewTokens \cup {<<>>},
            form_token : ViewTokens \cup {<<>>}] :
        b.json # "object" => b.json_token = <<>>}

GateRequests ==
    [path : Paths, method : {"GET"}, header : Headers, body : {NoBody}]

ViewRequests ==
    [path : {LOGIN_PATH, VALIDATE_PATH, LOGOUT_PATH}, method : {"GET", "POST"},
     header : {<<>>}, body : Bodies]

Requests == GateRequests \cup ViewRequests

Idle == [op |-> "idle"]

\* ------------------------------------------------------------------- actions

\* settings.py reads the FUSIONAUTH_* variables once, when the process starts.
Init ==
    /\ environ \in Environs
    /\ settings = environ
    /\ request = <<>>
    /\ last = Idle
    /\ envChanges = 0

\* A request arrives.
Receive ==
    /\ request = <<>> /\ last = Idle
    /\ \E r \in Requests : request' = <<r>>
    /\ UNCHANGED <<environ, settings, last, envChanges>>

\* The middleware handles the request in flight.
ProcessView ==
    /\ request # <<>>
    /\ last' = [op |-> "process_view", request |-> request[1],
                result |-> process_view(request[1], environ)]
    /\ request' = <<>>
    /\ UNCHANGED <<environ, settings, envChanges>>

\* A view wrapped by jwt_required handles the request in flight.
WrappedView ==
    /\ request # <<>>
    /\ request[1] \in GateRequests
    /\ last' = [op |-> "jwt_required", request |-> request[1],
                result |-> jwt_required(request[1], environ)]
    /\ request' = <<>>
    /\ UNCHANGED <<environ, settings, envChanges>>

LoginView ==
    /\ request # <<>>
    /\ request[1].path = LOGIN_PATH
    /\ last' = [op |-> "login_view", request |-> request[1],
                result |-> login_view(request[1], environ)]
    /\ request' = <<>>
    /\ UNCHANGED <<environ, settings, envChanges>>

ValidateTokenView ==
    /\ request # <<>>
    /\ request[1].path = VALIDATE_PATH
    /\ last' = [op |-> "validate_token_view", request |-> request[1],
                result |-> validate_token_view(request[1], environ)]
    /\ request' = <<>>
    /\ UNCHANGED <<environ, settings, envChanges>>

LogoutView ==
    /\ request # <<>>
    /\ request[1].path = LOGOUT_PATH
    /\ last' = [op |-> "logout_view", request |-> request[1],
                result |-> logout_view(request[1])]
    /\ request' = <<>>
    /\ UNCHANGED <<environ, settings, envChanges>>

\* A direct call of the verifier on a token text.
Validate ==
    /\ request = <<>> /\ last = Idle
    /\ \E token \in Tokens \cup Garbage :
         last' = [op |-> "validate_fusionauth_jwt", token |-> token,
                  result |-> validate_fusionauth_jwt(token, environ)]
    /\ UNCHANGED <<environ, settings, request, envChanges>>

\* The response is sent and the request, with its claims, is discarded.
Complete ==
    /\ request = <<>> /\ last # Idle
    /\ last' = Idle
    /\ UNCHANGED <<environ, settings, request, envChanges>>

\* Some code of the process assigns os.environ[name] = value.
SetEnv ==
    /\ envChanges < MaxEnvChanges
    /\ \E e \in Environs :
         /\ e # environ
         /\ Cardinality({k \in DOMAIN e : e[k] # environ[k]}) = 1
         /\ environ' = e
    /\ envChanges' = envChanges + 1
    /\ UNCHANGED <<settings, request, last>>

Next ==
    \/ Receive
    \/ ProcessView
    \/ WrappedView
    \/ LoginView
    \/ ValidateTokenView
    \/ LogoutView
    \/ Validate
    \/ Complete

Spec == Init /\ [][Next]_vars

\* A process started with a complete configuration and a key that loads, whose
\* environment is changed while it serves requests.
ConfigComplete(env) ==
    \A k \in DOMAIN env : env[k] \notin {None, ""}

InitEnv ==
    Init /\ ConfigComplete(environ) /\ environ.FUSIONAUTH_JWT_PUBLIC_KEY # "junk"

NextEnv == Next \/ SetEnv

SpecEnv == InitEnv /\ [][NextEnv]_vars

\* ============================================================ properties

\* The path starts with /api/protected/.
IsProtected(path) ==
    /\ Len(path) >= 5
    /\ path[1] = "/" /\ path[2] = "api" /\ path[3] = "/"
    /\ path[4] = "protected" /\ path[5] = "/"

\* The header reads Bearer, one space, and a non-empty remainder.
IsBearer(header) ==
    Len(header) >= 3 /\ header[1] = "Bearer" /\ header[2] = " "

\* The remainder of a bearer header.
Credential(header) == [i \in 1..(Len(header) - 2) |-> header[i + 2]]

GateHandled == last.op = "process_view" /\ IsProtected(last.request.path)

Status(result) == IF result.response = <<>> THEN 0 ELSE result.response[1].status

\* C1: on a protected path the middleware lets the request go on to the view
\* only if a bearer token was extracted and validate_fusionauth_jwt returned
\* claims for it; then, and only then, request.jwt_claims is set, to the
\* claims returned for that token.
C1_ProtectedOnlyWithClaims ==
    GateHandled =>
      LET h == last.request.header
          res == last.result
          accepted == IsBearer(h)
                        /\ validate_fusionauth_jwt(Credential(h), environ).kind = "ok"
      IN /\ res.view <=> accepted
         /\ (res.jwt_claims # <<>>) <=> accepted
         /\ accepted =>
              res.jwt_claims = <<validate_fusionauth_jwt(Credential(h), environ).claims>>
         /\ res.view => res.response = <<>> /\ res.raised = <<>>

C1_Witness ==
    /\ GateHandled
    /\ last.result.view
    /\ last.result.jwt_claims = <<Payload(SampleToken)>>

\* C2: on a protected path the middleware answers 401 with the fixed error
\* body exactly when the header is no bearer header, without calling the
\* verifier; it answers 403 with the verifier's message exactly when a token
\* was extracted and the verifier rejected it; the view runs in neither case.
C2_Status401And403 ==
    GateHandled =>
      LET h == last.request.header
          res == last.result
          v == validate_fusionauth_jwt(Credential(h), environ)
      IN /\ (Status(res) = 401) <=> ~IsBearer(h)
         /\ ~IsBearer(h) =>
              /\ res.response = <<[status |-> 401,
                    body |-> [error |-> "Missing or malformed Authorization token."]]>>
              /\ \A i \in DOMAIN res.calls : res.calls[i] # "validate_fusionauth_jwt"
         /\ (Status(res) = 403) <=> (IsBearer(h) /\ v.kind = "PermissionDenied")
         /\ (Status(res) = 403) =>
              res.response = <<[status |-> 403, body |-> [error |-> v.msg]]>>
         /\ Status(res) \in {401, 403} => ~res.view

C2_Witness ==
    /\ GateHandled
    /\ Status(last.result) = 403
    /\ last.result.response[1].body = [error |-> "Token has expired."]

\* C3: off the protected prefix the middleware passes the request on with no
\* token extraction, no verifier call and no jwt_claims, whatever the header.
C3_UnprotectedPassThrough ==
    (last.op = "process_view" /\ ~IsProtected(last.request.path)) =>
      /\ last.result.view
      /\ last.result.response = <<>>
      /\ last.result.calls = <<>>
      /\ last.result.jwt_claims = <<>>
      /\ last.result.raised = <<>>

C3_Witness ==
    /\ last.op = "process_view"
    /\ last.request.path = <<"/", "api", "/", "protected">>
    /\ last.request.header = <<"Bearer", " ", "x">>
    /\ last.result.view

Validated == last.op = "validate_fusionauth_jwt"

\* C4: with issuer, audience or public key unset or empty, the verifier fails
\* with the configuration failure for every token, whatever its content.
C4_ConfigurationMissing ==
    (Validated /\ ~ConfigComplete(environ)) =>
      last.result = [kind |-> "PermissionDenied",
                     msg |-> "FusionAuth configuration missing."]

C4_Witness ==
    /\ Validated
    /\ environ = [FUSIONAUTH_ISSUER |-> "", FUSIONAUTH_CLIENT_ID |-> "app1",
                  FUSIONAUTH_JWT_PUBLIC_KEY |-> "pemA"]
    /\ last.token = SampleToken
    /\ last.result.msg = "FusionAuth configuration missing."

\* The configuration is complete and its key is the trusted key.
TrustedConfig ==
    environ = [FUSIONAUTH_ISSUER |-> "iss1", FUSIONAUTH_CLIENT_ID |-> "app1",
               FUSIONAUTH_JWT_PUBLIC_KEY |-> "pemA"]

Denied(msg) == [kind |-> "PermissionDenied", msg |-> msg]

C6_Original_ExpiredWhateverElse ==
    /\ (Validated /\ TrustedConfig /\ last.token \in Tokens
          /\ last.token[1] = "pemA" /\ last.token[4] = "past"
          /\ last.token[5] = "app1" /\ last.token[6] = "iss1") =>
         last.result = Denied("Token has expired.")
    /\ (Validated /\ last.result = Denied("Token has expired.")) =>
         (last.token \in Tokens /\ last.token[4] = "past")

\* C6, amended: every token signed by the trusted key, with the configured iss
\* and aud, exp in the past and all else valid (iat an integer, nbf not in the
\* future), fails with "Token has expired."; no token that is not expired, and
\* no token with a foreign signature, fails with that message.
C6_ExpiredAllElseValid ==
    /\ (Validated /\ TrustedConfig /\ last.token \in Tokens
          /\ last.token[1] = "pemA" /\ last.token[2] = "past"
          /\ last.token[3] = "absent" /\ last.token[4] = "past"
          /\ last.token[5] \in {"app1", "[app2,app1]"} /\ last.token[6] = "iss1") =>
         last.result = Denied("Token has expired.")
    /\ (Validated /\ last.result = Denied("Token has expired.")) =>
         /\ last.token \in Tokens
         /\ last.token[4] = "past"
         /\ last.token[1] = environ.FUSIONAUTH_JWT_PUBLIC_KEY

C6_Witness ==
    /\ Validated /\ TrustedConfig
    /\ last.token = <<"pemA", "past", "absent", "past", "app1", "iss1">>
    /\ last.result = Denied("Token has expired.")

\* The same request sent to a protected path.
OnProtectedPath(req) ==
    [req EXCEPT !.path = <<"/", "api", "/", "protected", "/", "x">>]

\* C7: a view wrapped by jwt_required answers every request as the
\* middleware answers that request on a protected path: the same 401 or 403
\* response, or the view run with the same jwt_claims, whatever the path.
C7_DecoratorAsMiddleware ==
    /\ last.op = "jwt_required" =>
         last.result = process_view(OnProtectedPath(last.request), environ)
    /\ GateHandled =>
         last.result = jwt_required(last.request, environ)

C7_Witness ==
    /\ last.op = "jwt_required"
    /\ ~IsProtected(last.request.path)
    /\ last.result.view
    /\ last.result.jwt_claims = <<Payload(SampleToken)>>

\* The token a login or validate request supplies: the JSON object's member
\* or, when the body is no JSON object, the form field.
Supplied(req) ==
    IF req.body.json = "object" THEN req.body.json_token ELSE req.body.form_token

\* C8: login and validate answer 405 to a method other than POST, else 400
\* "Missing token." when no token is supplied, else 403 with the verifier's
\* message (and "valid": false on validate) when the verifier rejects the
\* token, else 200 with the claims; logout answers 405 to a method other than
\* POST and 200 {"success": true} to every POST.
C8_ViewResponses ==
    /\ last.op \in {"login_view", "validate_token_view"} =>
         LET req == last.request
             res == last.result
             v == validate_fusionauth_jwt(Supplied(req), environ)
             login == last.op = "login_view"
         IN IF req.method # "POST" THEN Status(res) = 405
            ELSE IF Supplied(req) = <<>>
              THEN res.response = <<[status |-> 400, body |-> [error |-> "Missing token."]]>>
            ELSE IF v.kind = "PermissionDenied"
              THEN res.response =
                     <<[status |-> 403,
                        body |-> IF login THEN [error |-> v.msg]
                                 ELSE [valid |-> FALSE, error |-> v.msg]]>>
            ELSE /\ Status(res) = 200
                 /\ res.response[1].body.claims = v.claims
                 /\ IF login THEN res.response[1].body.success
                             ELSE res.response[1].body.valid
    /\ last.op = "logout_view" =>
         IF last.request.method # "POST" THEN Status(last.result) = 405
         ELSE last.result.response = <<[status |-> 200, body |-> [success |-> TRUE]]>>

\* C9: every failure met while verifying a token becomes the verifier's
\* tagged failure, so the gate ends in one of its outcomes (view with claims,
\* 401, 403) and no exception leaves the verifier or the gate.
C9_NoUncaughtFault ==
    /\ Validated => last.result.kind \in {"ok", "PermissionDenied"}
    /\ last.op \in {"process_view", "jwt_required"} =>
         /\ last.result.raised = <<>>
         /\ last.result.view \/ Status(last.result) \in {401, 403}

\* C10: every verification uses the configuration read at start-up: what a
\* request or call gets depends only on its own token and on settings, also
\* after os.environ has changed.
C10_ConfigurationFixedAtStartup ==
    /\ Validated => last.result = validate_fusionauth_jwt(last.token, settings)
    /\ last.op = "process_view" => last.result = process_view(last.request, settings)
    /\ last.op = "jwt_required" => last.result = jwt_required(last.request, settings)
    /\ last.op = "login_view" => last.result = login_view(last.request, settings)
    /\ last.op = "validate_token_view" =>
         last.result = validate_token_view(last.request, settings)

====
